---- MODULE Spec2Model ----
(***************************************************************************)
(* A model of pysat/utils.py: load_netcdf4 (reading one or more netCDF     *)
(* files into one table plus a metadata object), season_date_range and     *)
(* create_datetime_index.                                                  *)
(* Strings are TLA+ strings, Python lists are sequences, dicts are         *)
(* functions, a DataFrame is a sequence of rows or a record of columns.    *)
(***************************************************************************)
EXTENDS Integers, Sequences, FiniteSets, TLC

(* ---------------------------------------------------------------- bounds *)
\* longest sequence of start or stop dates given to season_date_range
MaxPairs == 2
\* longest array given to create_datetime_index
MaxLen == 2
\* the dates are 0..MaxDate
MaxDate == 3
\* longest list of file names a call is given
MaxFiles == 2
\* length of the time dimension of the modelled files
NumTimes == 2
\* elements per timestamp of the modelled 2-D variables
StepSize == 2

(* ------------------------------------------------------- Python helpers *)
None == "None"

Max(a, b) == IF a >= b THEN a ELSE b

Range(s) == {s[k] : k \in DOMAIN s}

\* dict.update for one key: d[k] = v
DictSet(d, k, v) == [x \in (DOMAIN d) \cup {k} |-> IF x = k THEN v ELSE d[x]]

\* dict without key k (dict.pop / del)
DictDel(d, k) == [x \in (DOMAIN d) \ {k} |-> d[x]]

EmptyDict == [x \in {} |-> 0]

\* s[::-1].find('_'): number of characters after the last '_', -1 without one
RECURSIVE RevFindUnderscore(_, _)
RevFindUnderscore(s, n) ==
    IF n >= Len(s) THEN -1
    ELSE IF SubSeq(s, Len(s) - n, Len(s) - n) = "_" THEN n
    ELSE RevFindUnderscore(s, n + 1)

\* s[:-k] for k > 0
DropLast(s, k) == SubSeq(s, 1, Max(0, Len(s) - k))

\* s.find(sep) as a 1-based position, 0 when sep does not occur at or after p
RECURSIVE FindFrom(_, _, _)
FindFrom(s, sep, p) ==
    IF p + Len(sep) - 1 > Len(s) THEN 0
    ELSE IF SubSeq(s, p, p + Len(sep) - 1) = sep THEN p
    ELSE FindFrom(s, sep, p + 1)

\* s.split(sep)[-1]: what follows the last match of the left-to-right scan
RECURSIVE SplitLast(_, _)
SplitLast(s, sep) ==
    LET p == FindFrom(s, sep, 1)
    IN  IF p = 0 THEN s
        ELSE SplitLast(SubSeq(s, p + Len(sep), Len(s)), sep)

\* the concatenation of a sequence of sequences
RECURSIVE Flatten(_)
Flatten(ss) == IF ss = <<>> THEN <<>> ELSE Head(ss) \o Flatten(Tail(ss))

\* the positions of s, ascending, that hold x
RECURSIVE PositionsFrom(_, _, _)
PositionsFrom(s, x, k) ==
    IF k > Len(s) THEN <<>>
    ELSE IF s[k] = x THEN <<k>> \o PositionsFrom(s, x, k + 1)
    ELSE PositionsFrom(s, x, k + 1)

Positions(s, x) == PositionsFrom(s, x, 1)

(* ----------------------------------------------------- the netCDF files *)
time_name == "epoch"

\* a netCDF variable: its name, dimension names, shape, data in C order and
\* attributes
Var(name, dims, shape, data, long_name) ==
    [name |-> name, dims |-> dims, shape |-> shape, data |-> data,
     attrs |-> [long_name |-> long_name]]

TimeVar(base) ==
    Var(time_name, <<"epoch">>, <<NumTimes>>,
        [r \in 1..NumTimes |-> base + r], "UNIX time")

OneD(name, base) ==
    Var(name, <<"epoch">>, <<NumTimes>>,
        [r \in 1..NumTimes |-> base + r], name)

TwoD(name, dim2, base, long_name) ==
    Var(name, <<"epoch", dim2>>, <<NumTimes, StepSize>>,
        [k \in 1..(NumTimes * StepSize) |-> base + k], long_name)

GAttr(n, v) == [name |-> n, value |-> v]

File(gattrs, vars) == [gattrs |-> gattrs, vars |-> vars]

\* the paths of the files on disk
Paths ==
    {"plain1.nc", "plain2.nc", "idx.nc", "noidx.nc", "named.nc", "cube.nc",
     "scalar.nc", "coll.nc", "ragged.nc", "notime.nc", "tidx.nc"}

\* the paths a caller may give: those and the path of no file
PathInputs == Paths \cup {"absent.nc"}

\* the files on disk
FS(path) ==
    CASE path = "plain1.nc" ->
           File(<<GAttr("title", 1)>>, <<TimeVar(10), OneD("dens", 100)>>)
      [] path = "plain2.nc" ->
           File(<<GAttr("title", 2)>>, <<TimeVar(0), OneD("dens", 200)>>)
      [] path = "idx.nc" ->
           File(<<GAttr("title", 1)>>,
                <<TimeVar(20),
                  TwoD("rpa_a", "rpa_dimension_1", 300, "a"),
                  TwoD("rpa_dimension_1", "rpa_dimension_1", 400, "energy")>>)
      [] path = "noidx.nc" ->
           File(<<GAttr("title", 1)>>,
                <<TimeVar(30), TwoD("rpa_a", "rpa_dimension_1", 500, "a")>>)
      [] path = "named.nc" ->
           File(<<GAttr("title", 1)>>,
                <<TimeVar(40),
                  TwoD("rpa_a", "rpa_dimension_1", 600, "a"),
                  TwoD("dimension_1", "rpa_dimension_1", 700, "d")>>)
      [] path = "cube.nc" ->
           File(<<GAttr("title", 1)>>,
                <<TimeVar(50), OneD("dens", 800),
                  Var("vol", <<"epoch", "x", "y">>, <<NumTimes, 1, 1>>,
                      [r \in 1..NumTimes |-> 900 + r], "vol")>>)
      [] path = "scalar.nc" ->
           File(<<GAttr("title", 1)>>,
                <<TimeVar(60), OneD("dens", 1000),
                  Var("gain", <<>>, <<>>, <<7>>, "gain")>>)
      [] path = "coll.nc" ->
           File(<<GAttr("data_", 3), GAttr("data", 4), GAttr("title", 1)>>,
                <<TimeVar(70), OneD("dens", 1100)>>)
      [] path = "ragged.nc" ->
           File(<<GAttr("title", 1)>>,
                <<TimeVar(80),
                  Var("cal", <<"cal_dim">>, <<NumTimes + 1>>,
                      [r \in 1..(NumTimes + 1) |-> 1200 + r], "cal")>>)
      [] path = "notime.nc" ->
           File(<<GAttr("title", 1)>>, <<OneD("dens", 1300)>>)
      [] path = "tidx.nc" ->
           File(<<GAttr("title", 1)>>,
                <<TimeVar(90),
                  TwoD("img_b", "img_dimension_1", 1400, "b"),
                  TwoD("img_dimension_1", "img_dimension_1", 1500,
                       "UNIX time")>>)

VarNames(file) == {file.vars[k].name : k \in DOMAIN file.vars}

\* data.variables[key]
Variable(file, key) ==
    file.vars[CHOOSE k \in DOMAIN file.vars : file.vars[k].name = key]

(* --------------------------------------------------------- pysat.Meta *)
\* attribute names a new Meta object already has
ReservedAttrs == {"data"}

\* pysat.Meta(): attributes (set with __setattr__) and items (set with [])
MetaNew == [attrs |-> [n \in ReservedAttrs |-> 0], items |-> EmptyDict]

\* hasattr(mdata, d)
HasAttr(m, d) == d \in DOMAIN m.attrs

\* mdata.__setattr__(name, value)
SetAttr(m, name, value) == [m EXCEPT !.attrs = DictSet(m.attrs, name, value)]

\* mdata[key] = meta_dict
SetItem(m, key, meta) == [m EXCEPT !.items = DictSet(m.items, key, meta)]

\* mdata != saved_mdata
MetaDiffers(m1, m2) == m1 # m2

\* one pass of the loop over ncattrsList
StoreGlobalAttr(m, a) ==
    IF HasAttr(m, a.name) THEN SetAttr(m, a.name \o "_", a.value)
    ELSE SetAttr(m, a.name, a.value)

(* ------------------------------------------------------ format keyword *)
LowerCase == "abcdefghijklmnopqrstuvwxyz"
UpperCase == "ABCDEFGHIJKLMNOPQRSTUVWXYZ"

\* str.upper()
RECURSIVE Upper(_)
Upper(s) ==
    IF Len(s) = 0 THEN ""
    ELSE LET c == SubSeq(s, 1, 1)
             p == FindFrom(LowerCase, c, 1)
         IN  (IF p = 0 THEN c ELSE SubSeq(UpperCase, p, p))
             \o Upper(SubSeq(s, 2, Len(s)))

\* the format argument: omitted, or one of the four tags in either case
Formats ==
    {None, "netcdf4", "NETCDF4_CLASSIC", "NETCDF3_CLASSIC", "netcdf3_64bit"}

\* a normalisation that forgets to upper-case the tag
NormalFormatAsGiven(f) == IF f = None THEN "NETCDF4" ELSE f

\* lines 105-108
NormalFormat(f) == IF f = None THEN "NETCDF4" ELSE Upper(f)

\* the factor applied to the epoch values before pds.to_datetime
MilliFactor == 1000
MicroFactor == 1000000
EpochFactor(fmt) == IF fmt = "NETCDF4" THEN MilliFactor ELSE MicroFactor

(* ------------------------------------------------- table cell values *)
Num(v) == [num |-> v]
NaN == [nan |-> TRUE]

\* s[a:b] of Python, 0-based and half-open, clamped to the length
PySlice(s, a, b) == SubSeq(s, a + 1, IF b < Len(s) THEN b ELSE Len(s))

(* -------------------------------------------- first pass over variables *)
\* lines 127-144, one variable: what it adds to loadedVars, mdata and the
\* lists of 2-D keys and dimensions
LoadOne(st, v) ==
    LET nd == Len(v.dims)
        lv == IF nd = 1
              THEN DictSet(st.loadedVars, v.name,
                           [k \in DOMAIN v.data |-> Num(v.data[k])])
              ELSE st.loadedVars
        md == IF nd = 1 /\ v.name # time_name
              THEN SetItem(st.mdata, v.name, v.attrs)
              ELSE st.mdata
    IN  [loadedVars |-> lv, mdata |-> md,
         two_d_keys |-> IF nd = 2 THEN Append(st.two_d_keys, v.name)
                        ELSE st.two_d_keys,
         two_d_dims |-> IF nd = 2 THEN Append(st.two_d_dims, v.dims)
                        ELSE st.two_d_dims]

RECURSIVE LoadAll(_, _)
LoadAll(st, vs) == IF vs = <<>> THEN st ELSE LoadAll(LoadOne(st, Head(vs)), Tail(vs))

(* ------------------------------------------- second pass: 2-D groups *)
\* line 152: the object name cut out of the second dimension's name
ObjKeyName(d2) == DropLast(d2, RevFindUnderscore(d2, 0) + 11)

\* lines 220-223: the factor applied to a nested 'UNIX time' index
IndexFactor(fmt) == IF fmt = "NETCDF4" THEN MilliFactor ELSE MicroFactor

\* lines 154-163: the keys of the 2-D variables with dimensions dim, and
\* their names without the object's prefix
GroupKeys(keys, dims, dim) ==
    LET pos == Positions(dims, dim)
        obj == ObjKeyName(dim[2])
    IN  [obj |-> obj,
         obj_var_keys |-> [k \in 1..Len(pos) |-> keys[pos[k]]],
         clean_var_keys |->
             [k \in 1..Len(pos) |-> SplitLast(keys[pos[k]], obj \o "_")]]

\* what a group's processing gives: the exception raised, or the object's
\* name, nested frames and metadata
GroupFailed(gk, err) ==
    [err |-> err, name |-> gk.obj, frames |-> <<>>, meta |-> MetaNew]

\* lines 188-213: the flattened data and the attributes of every variable of
\* the group, a later key replacing an earlier one of the same clean name
GroupRead(file, gk) ==
    LET Last(c) == CHOOSE k \in DOMAIN gk.clean_var_keys :
                       /\ gk.clean_var_keys[k] = c
                       /\ \A k2 \in DOMAIN gk.clean_var_keys :
                              gk.clean_var_keys[k2] = c => k2 <= k
        Of(c) == Variable(file, gk.obj_var_keys[Last(c)])
        first == Variable(file, gk.obj_var_keys[1])
    IN  [loop_dict |-> [c \in Range(gk.clean_var_keys) |-> Of(c).data],
         dim_meta_data |->
             [attrs |-> MetaNew.attrs,
              items |-> [c \in Range(gk.clean_var_keys) |-> Of(c).attrs]],
         loop_lim |-> first.shape[1],
         step_size |-> first.shape[2]]

\* lines 168-183 and 215-229: the index of the nested frames and its name
GroupIndex(file, gk, gr, fmt) ==
    LET index_var == gk.obj \o "_dimension_1"
    IN  IF index_var \in Range(gk.obj_var_keys)
        THEN IF "dimension_1" \notin DOMAIN gr.loop_dict
             THEN [err |-> "KeyError", new_index |-> <<>>,
                   new_index_name |-> "", frame_dict |-> gr.loop_dict]
             ELSE LET long_name == Variable(file, index_var).attrs.long_name
                      popped == gr.loop_dict["dimension_1"]
                  IN  [err |-> "none",
                       new_index |->
                           IF long_name = "UNIX time"
                           THEN [k \in DOMAIN popped |->
                                    IndexFactor(fmt) * popped[k]]
                           ELSE popped,
                       new_index_name |->
                           IF long_name = "UNIX time" THEN "epoch"
                           ELSE long_name,
                       frame_dict |-> DictDel(gr.loop_dict, "dimension_1")]
        ELSE [err |-> "none",
              new_index |-> [k \in 1..(gr.loop_lim * gr.step_size) |->
                                (k - 1) % gr.step_size],
              new_index_name |-> "index",
              frame_dict |-> gr.loop_dict]

\* lines 236-238: the i-th nested frame (i from 0), rows
\* [step_size*i, step_size*(i+1)) of loop_frame under the same slice of the
\* index
Chunk(columns, gr, gi, i) ==
    [index_name |-> gi.new_index_name,
     index |-> PySlice(gi.new_index, gr.step_size * i, gr.step_size * (i + 1)),
     columns |-> columns,
     data |-> [c \in Range(columns) |->
                  LET part == PySlice(gi.frame_dict[c], gr.step_size * i,
                                      gr.step_size * (i + 1))
                  IN  [k \in DOMAIN part |-> Num(part[k])]]]

\* the number of rows of a DataFrame built from columns of these lengths
NumRows(lens) == IF lens = {} THEN 0 ELSE CHOOSE n \in lens : TRUE

\* lines 231-238: loop_frame is built, loses its 'dimension_1' column and is
\* cut into loop_lim frames
GroupFrames(gk, gr, gi) ==
    LET lens == {Len(gi.frame_dict[c]) : c \in DOMAIN gi.frame_dict}
        columns == SelectSeq(gk.clean_var_keys, LAMBDA c : c # "dimension_1")
    IN  IF Cardinality(lens) > 1
        THEN GroupFailed(gk, "ValueError")
        ELSE IF "dimension_1" \notin Range(gk.clean_var_keys)
        THEN GroupFailed(gk, "KeyError")
        ELSE IF \E i \in 0..(gr.loop_lim - 1) :
                    Len(PySlice(gi.new_index, gr.step_size * i,
                                gr.step_size * (i + 1)))
                      # Len(PySlice([k \in 1..NumRows(lens) |-> k],
                                    gr.step_size * i, gr.step_size * (i + 1)))
        THEN GroupFailed(gk, "ValueError")
        ELSE [err |-> "none", name |-> gk.obj,
              frames |-> [i \in 1..gr.loop_lim |-> Chunk(columns, gr, gi, i - 1)],
              meta |-> gr.dim_meta_data]

GroupFromIndex(gk, gr, gi) ==
    IF gi.err # "none" THEN GroupFailed(gk, gi.err) ELSE GroupFrames(gk, gr, gi)

GroupFromData(file, gk, gr, fmt) ==
    GroupFromIndex(gk, gr, GroupIndex(file, gk, gr, fmt))

GroupFromKeys(file, gk, fmt) ==
    IF \E k \in DOMAIN gk.obj_var_keys : gk.obj_var_keys[k] \notin VarNames(file)
    THEN GroupFailed(gk, "KeyError")
    ELSE IF \E k \in DOMAIN gk.obj_var_keys :
                Len(Variable(file, gk.obj_var_keys[k]).dims) # 2
    THEN GroupFailed(gk, "IndexError")
    ELSE GroupFromData(file, gk, GroupRead(file, gk), fmt)

\* lines 152-243 for one dimension tuple dim: the nested frames of the
\* object, its metadata, or the exception the code raises on the way
Group(file, keys, dims, dim, fmt) ==
    GroupFromKeys(file, GroupKeys(keys, dims, dim), fmt)

\* line 148: set(two_d_dims)
DimSet(dims) == Range(dims)

\* lines 201 and 242: the groups stored into loadedVars and mdata
StoreGroups(gs, lv, md) ==
    LET names == {g.name : g \in gs}
        Of(n) == CHOOSE g \in gs : g.name = n
    IN  IF \E g \in gs : g.err # "none"
        THEN [err |-> (CHOOSE g \in gs : g.err # "none").err,
              loadedVars |-> lv, mdata |-> md]
        ELSE [err |-> "none",
              loadedVars |-> [n \in (DOMAIN lv) \cup names |->
                                 IF n \in names THEN Of(n).frames ELSE lv[n]],
              mdata |-> [md EXCEPT !.items =
                            [n \in (DOMAIN md.items) \cup names |->
                                IF n \in names THEN Of(n).meta
                                ELSE md.items[n]]]]

\* lines 148-243: every group of the file
GroupAll(file, keys, dims, fmt, lv, md) ==
    StoreGroups({Group(file, keys, dims, dim, fmt) : dim \in DimSet(dims)},
                lv, md)

(* ------------------------------------------------- building the table *)
\* pds.DataFrame.from_records(item, index=time_name) accepts the item only
\* when every column is as long as the index column
RecordsOK(item) ==
    \A k \in DOMAIN item : Len(item[k]) = Len(item[time_name])

\* a from_records that loses the last row
FromRecordsShort(item) ==
    [r \in 1..(Len(item[time_name]) - 1) |->
        [index |-> item[time_name][r],
         cols |-> [k \in (DOMAIN item) \ {time_name} |-> item[k][r]]]]

\* pds.DataFrame.from_records(item, index=time_name): one row per element of
\* the index column, the other keys as columns
FromRecords(item) ==
    [r \in 1..Len(item[time_name]) |->
        [index |-> item[time_name][r],
         cols |-> [k \in (DOMAIN item) \ {time_name} |-> item[k][r]]]]

\* the outer join of pds.concat: every row gets every column, NaN where its
\* frame had none
Widen(rows) ==
    LET allcols == UNION {DOMAIN rows[r].cols : r \in DOMAIN rows}
    IN  [r \in DOMAIN rows |->
            [index |-> rows[r].index,
             cols |-> [k \in allcols |->
                          IF k \in DOMAIN rows[r].cols THEN rows[r].cols[k]
                          ELSE NaN]]]

\* rows in ascending index order (a stable insertion sort)
RECURSIVE InsertRow(_, _)
InsertRow(sorted, row) ==
    IF sorted = <<>> THEN <<row>>
    ELSE IF row.index.num < Head(sorted).index.num THEN <<row>> \o sorted
    ELSE <<Head(sorted)>> \o InsertRow(Tail(sorted), row)

RECURSIVE SortRows(_)
SortRows(rows) ==
    IF rows = <<>> THEN <<>>
    ELSE InsertRow(SortRows(SubSeq(rows, 1, Len(rows) - 1)), rows[Len(rows)])

\* a concatenation that re-sorts the rows by their timestamps
PdsConcatSorted(frames) == SortRows(Widen(Flatten(frames)))

\* pds.concat(out, axis=0): the frames' rows one frame after the other
PdsConcat(frames) == Widen(Flatten(frames))

\* a with statement whose exit releases nothing
WithExitLeak(hs, k) == hs

\* the with statement's exit: the handle of file k is released
WithExit(hs, k) == hs \ {k}

(* ------------------------------------------------------------ the state *)
VARIABLES
    call,           \* the arguments load_netcdf4 was called with
    pc,             \* where the call is
    fnames,         \* the list of file names, after lines 100-103
    format,         \* the format keyword, after lines 105-108
    i,              \* position in fnames of the file of the for loop
    j,              \* position in ncattrsList of the next global attribute
    handles,        \* the open netCDF4.Dataset handles, by position in fnames
    saved_mdata,    \* <<>> for None, else <<the first file's Meta>>
    mdata,          \* the Meta object of the file being read
    running_idx,
    running_store,
    two_d_keys,
    two_d_dims,
    loadedVars,
    result,         \* what the call returned
    error,          \* the exception the call raised
    season,         \* the state of a season_date_range call
    dt              \* the state of a create_datetime_index call

loadVars ==
    <<call, pc, fnames, format, i, j, handles, saved_mdata, mdata, running_idx,
      running_store, two_d_keys, two_d_dims, loadedVars, result, error>>

vars == <<loadVars, season, dt>>

\* sequences over S of length 0..n
SeqsUpTo(S, n) == UNION {[1..m -> S] : m \in 0..n}

\* the fnames argument: None, one path as a string, or a list of paths
FnamesInputs ==
    {[kind |-> "none", path |-> "", paths |-> <<>>]}
    \cup {[kind |-> "str", path |-> p, paths |-> <<>>] : p \in PathInputs}
    \cup {[kind |-> "list", path |-> "", paths |-> ps] :
              ps \in SeqsUpTo(PathInputs, MaxFiles)}

Unbound == [attrs |-> EmptyDict, items |-> EmptyDict]
NoResult == [kind |-> "none", out |-> <<>>, mdata |-> Unbound]
NoError == [type |-> "none", site |-> "none"]
SeasonIdle == [pc |-> "idle"]
DtIdle == [pc |-> "idle"]

LoadInit ==
    /\ call \in [fnames : FnamesInputs, strict_meta : BOOLEAN, format : Formats]
    /\ pc = "call"
    /\ fnames = <<>>
    /\ format = call.format
    /\ i = 0
    /\ j = 0
    /\ handles = {}
    /\ saved_mdata = <<>>
    /\ mdata = Unbound
    /\ running_idx = 0
    /\ running_store = <<>>
    /\ two_d_keys = <<>>
    /\ two_d_dims = <<>>
    /\ loadedVars = EmptyDict
    /\ result = NoResult
    /\ error = NoError

Init == LoadInit /\ season = SeasonIdle /\ dt = DtIdle

\* an exception leaves the function from outside the with block
Raise(type, site) ==
    /\ pc' = "raised"
    /\ error' = [type |-> type, site |-> site]
    /\ UNCHANGED handles

\* an exception leaves the with block of file i, which releases the file
RaiseInWith(type, site) ==
    /\ pc' = "raised"
    /\ error' = [type |-> type, site |-> site]
    /\ handles' = WithExit(handles, i)

curfile == FS(fnames[i])

(* ---------------------------------------------------------- the actions *)
\* an argument check that lets None through as an empty list
ArgCheckNoNone ==
    /\ pc = "call"
    /\ fnames' = IF call.fnames.kind = "str"
                 THEN <<call.fnames.path>> ELSE call.fnames.paths
    /\ format' = NormalFormat(call.format)
    /\ i' = 1
    /\ pc' = "loop"
    /\ UNCHANGED <<call, j, handles, saved_mdata, mdata, running_idx,
                   running_store, two_d_keys, two_d_dims, loadedVars, result,
                   error, season, dt>>

\* lines 100-113: the argument check, the normalisations and the locals
ArgCheck ==
    /\ pc = "call"
    /\ IF call.fnames.kind = "none"
       THEN /\ Raise("ValueError", "argcheck")
            /\ UNCHANGED <<fnames, format, i>>
       ELSE /\ fnames' = IF call.fnames.kind = "str"
                          THEN <<call.fnames.path>> ELSE call.fnames.paths
            /\ format' = NormalFormat(call.format)
            /\ i' = 1
            /\ pc' = "loop"
            /\ UNCHANGED <<handles, error>>
    /\ UNCHANGED <<call, j, saved_mdata, mdata, running_idx, running_store,
                   two_d_keys, two_d_dims, loadedVars, result, season, dt>>

\* an open that makes the Meta once, for the first file only
OpenFileKeepMeta ==
    /\ pc = "loop"
    /\ i <= Len(fnames)
    /\ IF fnames[i] \notin Paths
       THEN /\ Raise("IOError", "open")
            /\ UNCHANGED <<mdata, j>>
       ELSE /\ handles' = handles \cup {i}
            /\ mdata' = IF i = 1 THEN MetaNew ELSE mdata
            /\ j' = 1
            /\ pc' = "attrs"
            /\ UNCHANGED error
    /\ UNCHANGED <<call, fnames, format, i, saved_mdata, running_idx,
                   running_store, two_d_keys, two_d_dims, loadedVars, result,
                   season, dt>>

\* lines 114-119: the next file is opened and a new Meta is made for it;
\* netCDF4.Dataset raises for a path that is no file, and opens nothing
OpenFile ==
    /\ pc = "loop"
    /\ i <= Len(fnames)
    /\ IF fnames[i] \notin Paths
       THEN /\ Raise("IOError", "open")
            /\ UNCHANGED <<mdata, j>>
       ELSE /\ handles' = handles \cup {i}
            /\ mdata' = MetaNew
            /\ j' = 1
            /\ pc' = "attrs"
            /\ UNCHANGED error
    /\ UNCHANGED <<call, fnames, format, i, saved_mdata, running_idx,
                   running_store, two_d_keys, two_d_dims, loadedVars, result,
                   season, dt>>

\* lines 120-124: one global attribute is stored
ReadGlobalAttr ==
    /\ pc = "attrs"
    /\ j <= Len(curfile.gattrs)
    /\ mdata' = StoreGlobalAttr(mdata, curfile.gattrs[j])
    /\ j' = j + 1
    /\ UNCHANGED <<call, pc, fnames, format, i, handles, saved_mdata,
                   running_idx, running_store, two_d_keys, two_d_dims,
                   loadedVars, result, error, season, dt>>

\* lines 127-144: the pass over data.variables
LoadVariables ==
    /\ pc = "attrs"
    /\ j > Len(curfile.gattrs)
    /\ \E st \in {LoadAll([loadedVars |-> EmptyDict, mdata |-> mdata,
                           two_d_keys |-> two_d_keys,
                           two_d_dims |-> two_d_dims], curfile.vars)} :
           /\ loadedVars' = st.loadedVars
           /\ mdata' = st.mdata
           /\ two_d_keys' = st.two_d_keys
           /\ two_d_dims' = st.two_d_dims
    /\ pc' = "group"
    /\ UNCHANGED <<call, fnames, format, i, j, handles, saved_mdata,
                   running_idx, running_store, result, error, season, dt>>

\* lines 148-243: the 2-D variables become nested frames
GroupTwoD ==
    /\ pc = "group"
    /\ \E g \in {GroupAll(curfile, two_d_keys, two_d_dims, format, loadedVars,
                          mdata)} :
           IF g.err # "none"
           THEN /\ RaiseInWith(g.err, "group")
                /\ UNCHANGED <<loadedVars, mdata>>
           ELSE /\ loadedVars' = g.loadedVars
                /\ mdata' = g.mdata
                /\ pc' = "index"
                /\ UNCHANGED <<handles, error>>
    /\ UNCHANGED <<call, fnames, format, i, j, saved_mdata, running_idx,
                   running_store, two_d_keys, two_d_dims, result, season, dt>>

\* lines 246-257: the time variable becomes the index and the file's
\* variables are stored
BuildTimeIndex ==
    /\ pc = "index"
    /\ IF time_name \notin DOMAIN loadedVars
       THEN /\ RaiseInWith("KeyError", "index")
            /\ UNCHANGED <<loadedVars, running_store, running_idx>>
       ELSE LET time_var == loadedVars[time_name]
                stamped == [k \in DOMAIN time_var |->
                               Num(EpochFactor(format) * time_var[k].num)]
                lv == DictSet(loadedVars, time_name, stamped)
            IN  /\ loadedVars' = lv
                /\ running_store' = Append(running_store, lv)
                /\ running_idx' = running_idx + Len(stamped)
                /\ pc' = "strict"
                /\ UNCHANGED <<handles, error>>
    /\ UNCHANGED <<call, fnames, format, i, j, saved_mdata, mdata, two_d_keys,
                   two_d_dims, result, season, dt>>

\* a strict comparison that saves the first Meta but never raises
StrictCheckSkip ==
    /\ pc = "strict"
    /\ saved_mdata' = IF call.strict_meta /\ saved_mdata = <<>>
                      THEN <<mdata>> ELSE saved_mdata
    /\ pc' = "close"
    /\ UNCHANGED <<call, fnames, format, i, j, handles, mdata, running_idx,
                   running_store, two_d_keys, two_d_dims, loadedVars, result,
                   error, season, dt>>

\* lines 259-263: the strict comparison with the first file's metadata
StrictCheck ==
    /\ pc = "strict"
    /\ IF call.strict_meta /\ saved_mdata # <<>>
          /\ MetaDiffers(mdata, saved_mdata[1])
       THEN /\ RaiseInWith("ValueError", "strict")
            /\ UNCHANGED saved_mdata
       ELSE /\ saved_mdata' = IF call.strict_meta /\ saved_mdata = <<>>
                              THEN <<mdata>> ELSE saved_mdata
            /\ pc' = "close"
            /\ UNCHANGED <<handles, error>>
    /\ UNCHANGED <<call, fnames, format, i, j, mdata, running_idx,
                   running_store, two_d_keys, two_d_dims, loadedVars, result,
                   season, dt>>

\* line 115: the with block ends and the for loop goes to the next file
CloseFile ==
    /\ pc = "close"
    /\ handles' = WithExit(handles, i)
    /\ i' = i + 1
    /\ pc' = "loop"
    /\ UNCHANGED <<call, fnames, format, j, saved_mdata, mdata, running_idx,
                   running_store, two_d_keys, two_d_dims, loadedVars, result,
                   error, season, dt>>

\* lines 266-270: the stored files become frames, which are concatenated
Combine ==
    /\ pc = "loop"
    /\ i > Len(fnames)
    /\ IF \E k \in DOMAIN running_store : ~RecordsOK(running_store[k])
       THEN Raise("ValueError", "from_records") /\ UNCHANGED result
       ELSE IF running_store = <<>>
       THEN Raise("ValueError", "concat") /\ UNCHANGED result
       ELSE /\ result' =
                [kind |-> "return",
                 out |-> PdsConcat([k \in DOMAIN running_store |->
                                       FromRecords(running_store[k])]),
                 mdata |-> mdata]
            /\ pc' = "returned"
            /\ UNCHANGED <<handles, error>>
    /\ UNCHANGED <<call, fnames, format, i, j, saved_mdata, mdata, running_idx,
                   running_store, two_d_keys, two_d_dims, loadedVars, season, dt>>

LoadNext ==
    \/ ArgCheck
    \/ OpenFile
    \/ ReadGlobalAttr
    \/ LoadVariables
    \/ GroupTwoD
    \/ BuildTimeIndex
    \/ StrictCheck
    \/ CloseFile
    \/ Combine

Next == LoadNext

Spec == Init /\ [][Next]_vars

(* ---------------------------------------------------- season_date_range *)
Dates == 0..MaxDate

\* the freq codes: every tick ('D'), every second tick from the start ('2D')
\* and an anchored code, every tick that is a multiple of the step (as 'M'
\* gives month ends whatever the start)
Freqs ==
    {[step |-> 1, anchored |-> FALSE], [step |-> 2, anchored |-> FALSE],
     [step |-> 2, anchored |-> TRUE]}

RECURSIVE RangeFrom(_, _, _)
RangeFrom(d, b, n) == IF d > b THEN <<>> ELSE <<d>> \o RangeFrom(d + n, b, n)

\* pds.date_range(a, b, freq=f)
DateRange(a, b, f) ==
    RangeFrom(IF f.anchored THEN ((a + f.step - 1) \div f.step) * f.step ELSE a,
              b, f.step)

\* an append that gives the sorted union of the two indexes
RECURSIVE IndexUnion(_, _)
IndexUnion(a, b) ==
    IF a = <<>> THEN b
    ELSE IF b = <<>> THEN a
    ELSE IF Head(a) < Head(b) THEN <<Head(a)>> \o IndexUnion(Tail(a), b)
    ELSE IF Head(b) < Head(a) THEN <<Head(b)>> \o IndexUnion(a, Tail(b))
    ELSE <<Head(a)>> \o IndexUnion(Tail(a), Tail(b))

\* season.append(other)
IndexAppend(a, b) == a \o b

\* the arguments: one (start, stop) pair of dates, or two sequences of dates
SeasonInputs ==
    {[iter |-> FALSE, start |-> <<a>>, stop |-> <<b>>] : a \in Dates, b \in Dates}
    \cup {[iter |-> TRUE, start |-> sa, stop |-> so] :
              sa \in SeqsUpTo(Dates, MaxPairs), so \in SeqsUpTo(Dates, MaxPairs)}

LoadIdle ==
    /\ call = [fnames |-> [kind |-> "none", path |-> "", paths |-> <<>>],
               strict_meta |-> FALSE, format |-> None]
    /\ pc = "idle"
    /\ fnames = <<>>
    /\ format = None
    /\ i = 0
    /\ j = 0
    /\ handles = {}
    /\ saved_mdata = <<>>
    /\ mdata = Unbound
    /\ running_idx = 0
    /\ running_store = <<>>
    /\ two_d_keys = <<>>
    /\ two_d_dims = <<>>
    /\ loadedVars = EmptyDict
    /\ result = NoResult
    /\ error = NoError

SeasonInit ==
    /\ LoadIdle
    /\ dt = DtIdle
    /\ \E a \in SeasonInputs, f \in Freqs :
           season = [pc |-> "call", iter |-> a.iter, start |-> a.start,
                     stop |-> a.stop, freq |-> f, k |-> 0, season |-> <<>>,
                     error |-> "none"]

\* the pairs zip(start[1:], stop[1:]) gives, plus the first
NumPairs(st) ==
    IF Len(st.start) <= Len(st.stop) THEN Len(st.start) ELSE Len(st.stop)

\* lines 293-295 and 298-300: the first range; the single form returns it
SeasonFirst ==
    /\ season.pc = "call"
    /\ season' =
          IF ~season.iter
          THEN [season EXCEPT !.pc = "returned",
                              !.season = DateRange(season.start[1],
                                                   season.stop[1], season.freq)]
          ELSE IF season.start = <<>> \/ season.stop = <<>>
          THEN [season EXCEPT !.pc = "raised", !.error = "IndexError"]
          ELSE [season EXCEPT !.pc = "zip", !.k = 2,
                              !.season = DateRange(season.start[1],
                                                   season.stop[1], season.freq)]
    /\ UNCHANGED <<loadVars, dt>>

\* lines 296-297: the next pair's range is appended
SeasonAppend ==
    /\ season.pc = "zip"
    /\ season.k <= NumPairs(season)
    /\ season' =
          [season EXCEPT !.k = season.k + 1,
                         !.season = IndexAppend(season.season,
                                                DateRange(season.start[season.k],
                                                          season.stop[season.k],
                                                          season.freq))]
    /\ UNCHANGED <<loadVars, dt>>

\* line 300
SeasonReturn ==
    /\ season.pc = "zip"
    /\ season.k > NumPairs(season)
    /\ season' = [season EXCEPT !.pc = "returned"]
    /\ UNCHANGED <<loadVars, dt>>

SeasonNext == SeasonFirst \/ SeasonAppend \/ SeasonReturn

SeasonSpec == SeasonInit /\ [][SeasonNext]_vars

(* -------------------------------------------- create_datetime_index *)
\* (day-1)*86400: the seconds of one day
SecondsPerDay == 86400
\* datetime(1970,1,1): the year of the unix epoch
EpochYear == 1970

\* the values the elements of year, month, day and uts are drawn from
Years == {2019, 2020}
Months == {2, 3}
Days == {1, 2}
Seconds == {0, 30}

\* Python's datetime: the proleptic Gregorian calendar
IsLeap(y) == (y % 4 = 0) /\ ((y % 100 # 0) \/ (y % 400 = 0))

DaysBeforeYear(y) ==
    (y - 1) * 365 + ((y - 1) \div 4) - ((y - 1) \div 100) + ((y - 1) \div 400)

DaysInMonth(y, m) ==
    CASE m = 2 -> IF IsLeap(y) THEN 29 ELSE 28
      [] m \in {4, 6, 9, 11} -> 30
      [] OTHER -> 31

RECURSIVE DaysBeforeMonth(_, _)
DaysBeforeMonth(y, m) ==
    IF m <= 1 THEN 0 ELSE DaysBeforeMonth(y, m - 1) + DaysInMonth(y, m - 1)

\* datetime(y, m, d).toordinal()
Ordinal(y, m, d) == DaysBeforeYear(y) + DaysBeforeMonth(y, m) + d

\* (datetime(y2,m2,1) - datetime(y1,m1,1)).total_seconds()
MonthStartDiff(y2, m2, y1, m1) ==
    (Ordinal(y2, m2, 1) - Ordinal(y1, m1, 1)) * SecondsPerDay

\* numpy: two 1-d shapes broadcast when they agree or one of them is 1
BroadcastOK(n, m) == n = m \/ n = 1 \/ m = 1
BroadcastLen(n, m) == IF n = 1 THEN m ELSE n
\* element p of array a stretched to a broadcast shape
At(a, p) == a[IF Len(a) = 1 THEN 1 ELSE p]

\* year*100.+month
YearMonthKeys(y, m) ==
    [p \in 1..BroadcastLen(Len(y), Len(m)) |-> At(y, p) * 100 + At(m, p)]

RECURSIVE SortedSeq(_)
SortedSeq(S) ==
    IF S = {} THEN <<>>
    ELSE LET x == CHOOSE v \in S : \A w \in S : v <= w
         IN  <<x>> \o SortedSeq(S \ {x})

\* the 0-based position of the first element of a equal to v
FirstIndex(a, v) ==
    (CHOOSE p \in DOMAIN a :
        a[p] = v /\ \A q \in DOMAIN a : a[q] = v => p <= q) - 1

\* the idx of np.unique(a, return_index=True): for each distinct value, in
\* ascending order of the values, the position of its first occurrence
UniqueIndex(a) ==
    LET vs == SortedSeq({a[p] : p \in DOMAIN a})
    IN  [k \in DOMAIN vs |-> FirstIndex(a, vs[k])]

\* an argument: None, a Python number, or a numpy array
DtArg(S) ==
    {[kind |-> "none", vals |-> <<>>]}
    \cup {[kind |-> "scalar", vals |-> <<v>>] : v \in S}
    \cup {[kind |-> "array", vals |-> a] : a \in SeqsUpTo(S, MaxLen)}

\* np.ones(n, dtype=int) and np.zeros(n)
Filled(n, v) == [p \in 1..n |-> v]

DtInit ==
    /\ LoadIdle
    /\ season = SeasonIdle
    /\ \E ya \in DtArg(Years), ma \in DtArg(Months), da \in DtArg(Days),
          ua \in DtArg(Seconds) :
           dt = [pc |-> "call", year |-> ya, month |-> ma, day |-> da,
                 uts |-> ua, y |-> <<>>, m |-> <<>>, d |-> <<>>,
                 uts_del |-> <<>>, idx |-> <<>>, idx2 |-> <<>>, k |-> 0,
                 out |-> <<>>, error |-> "none"]

DtRaise(type) == dt' = [dt EXCEPT !.pc = "raised", !.error = type]

\* lines 346-349: year must have __iter__ and a length above zero
DtCheck ==
    /\ dt.pc = "call"
    /\ IF dt.year.kind # "array" \/ dt.year.vals = <<>>
       THEN DtRaise("ValueError")
       ELSE dt' = [dt EXCEPT !.pc = "prepare"]
    /\ UNCHANGED <<loadVars, season>>

\* lines 350-361: defaults for the arguments left None, astype and copy on
\* the others; a Python number has neither method
DtPrepare ==
    /\ dt.pc = "prepare"
    /\ IF "scalar" \in {dt.month.kind, dt.day.kind, dt.uts.kind}
       THEN DtRaise("AttributeError")
       ELSE dt' = [dt EXCEPT
                !.pc = "unique",
                !.y = dt.year.vals,
                !.m = IF dt.month.kind = "none"
                      THEN Filled(Len(dt.year.vals), 1) ELSE dt.month.vals,
                !.d = IF dt.day.kind = "none"
                      THEN Filled(Len(dt.year.vals), 1) ELSE dt.day.vals,
                !.uts_del = IF dt.uts.kind = "none"
                            THEN Filled(Len(dt.year.vals), 0) ELSE dt.uts.vals]
    /\ UNCHANGED <<loadVars, season>>

\* lines 365-367: the first row of each distinct (year, month), and the same
\* list with len(year)+1 appended
DtUnique ==
    /\ dt.pc = "unique"
    /\ IF ~BroadcastOK(Len(dt.y), Len(dt.m))
       THEN DtRaise("ValueError")
       ELSE \E ix \in {UniqueIndex(YearMonthKeys(dt.y, dt.m))} :
                dt' = [dt EXCEPT !.pc = "loop", !.idx = ix,
                                 !.idx2 = Append(ix, Len(dt.y) + 1), !.k = 1]
    /\ UNCHANGED <<loadVars, season>>

\* the number of pairs zip(idx[1:], idx2[2:]) gives
NumGroups(st) == Max(Len(st.idx) - 1, 0)

\* uts_del[_idx:_idx2] += temp
SliceAdd(a, lo, hi, temp) ==
    [p \in DOMAIN a |-> IF lo <= p - 1 /\ p - 1 < hi THEN a[p] + temp ELSE a[p]]

\* lines 369-371, one pass of the loop: the rows _idx.._idx2-1 get the seconds
\* from the first row's month to the month of row _idx
DtOffset ==
    /\ dt.pc = "loop"
    /\ dt.k <= NumGroups(dt)
    /\ \E lo \in {dt.idx[dt.k + 1]}, hi \in {dt.idx2[dt.k + 2]} :
           IF lo >= Len(dt.y) \/ lo >= Len(dt.m)
           THEN DtRaise("IndexError")
           ELSE dt' = [dt EXCEPT
                    !.k = dt.k + 1,
                    !.uts_del =
                        SliceAdd(dt.uts_del, lo, hi,
                                 MonthStartDiff(dt.y[lo + 1], dt.m[lo + 1],
                                                dt.y[1], dt.m[1]))]
    /\ UNCHANGED <<loadVars, season>>

\* lines 374-379: the seconds of the days, the seconds from the epoch to the
\* first row's month; 1E9 makes nanoseconds of them and to_datetime reads
\* nanoseconds, so the index holds the timestamps at these seconds
DtFinish ==
    /\ dt.pc = "loop"
    /\ dt.k > NumGroups(dt)
    /\ IF ~BroadcastOK(Len(dt.uts_del), Len(dt.d))
              \/ BroadcastLen(Len(dt.uts_del), Len(dt.d)) # Len(dt.uts_del)
       THEN DtRaise("ValueError")
       ELSE IF dt.m = <<>>
       THEN DtRaise("IndexError")
       ELSE dt' = [dt EXCEPT
                !.pc = "returned",
                !.out = [p \in DOMAIN dt.uts_del |->
                            dt.uts_del[p]
                            + (At(dt.d, p) - 1) * SecondsPerDay
                            + MonthStartDiff(dt.y[1], dt.m[1], EpochYear, 1)]]
    /\ UNCHANGED <<loadVars, season>>

DtNext == DtCheck \/ DtPrepare \/ DtUnique \/ DtOffset \/ DtFinish

DtSpec == DtInit /\ [][DtNext]_vars

(* ------------------------------------------------------------- claims *)
\* the 1-D variables of a file other than the time variable
ScalarVars(file) ==
    {file.vars[k] : k \in {n \in DOMAIN file.vars :
                              /\ Len(file.vars[n].dims) = 1
                              /\ file.vars[n].name # time_name}}

\* the raw time values of the file at path
TimeData(path) == Variable(FS(path), time_name).data

\* the number of rows that come before those of the k-th file
RECURSIVE RowsBefore(_, _)
RowsBefore(paths, k) ==
    IF k <= 1 THEN 0
    ELSE RowsBefore(paths, k - 1) + Len(TimeData(paths[k - 1]))

\* C1: the returned dataset is the concatenation of the per-file tables in
\* input list order: the rows of the k-th file, in the file's own order and
\* with the file's values, follow the rows of all earlier files, whatever the
\* timestamps, and nothing is dropped, deduplicated or re-sorted.
C1_FileOrder ==
    pc = "returned" =>
        /\ Len(result.out) = RowsBefore(fnames, Len(fnames) + 1)
        /\ \E f \in {MilliFactor, MicroFactor} :
               \A k \in DOMAIN fnames :
                   \A r \in DOMAIN TimeData(fnames[k]) :
                       LET row == result.out[RowsBefore(fnames, k) + r]
                       IN  /\ row.index = Num(f * TimeData(fnames[k])[r])
                           /\ \A v \in ScalarVars(FS(fnames[k])) :
                                  row.cols[v.name] = Num(v.data[r])

\* two files whose rows are out of time order, and one file given twice
C1_Witness ==
    /\ pc = "returned"
    /\ call.fnames.paths = <<"plain1.nc", "plain2.nc">>
    /\ Len(result.out) = 2 * NumTimes
    /\ result.out[1].index.num > result.out[Len(result.out)].index.num

\* lines 120-124 for all of a file's global attributes
RECURSIVE StoreAll(_, _)
StoreAll(m, attrs) ==
    IF attrs = <<>> THEN m ELSE StoreAll(StoreGlobalAttr(m, Head(attrs)), Tail(attrs))

\* the Meta that lines 119-243 build for a file read first
CatalogStage(file, st, fmt) ==
    GroupAll(file, st.two_d_keys, st.two_d_dims, fmt, st.loadedVars, st.mdata).mdata

CatalogOfFirst(path, fmt) ==
    CatalogStage(FS(path),
                 LoadAll([loadedVars |-> EmptyDict,
                          mdata |-> StoreAll(MetaNew, FS(path).gattrs),
                          two_d_keys |-> <<>>, two_d_dims |-> <<>>],
                         FS(path).vars),
                 fmt)

\* C2: with strict_meta=True every file that gets past the comparison has a
\* catalog equal to the first file's, so a file whose catalog differs makes
\* the call raise; and a call that raises returns no dataset and no catalog.
C2_StrictMeta ==
    call.strict_meta =>
        /\ pc = "close" => mdata = CatalogOfFirst(fnames[1], format)
        /\ pc = "returned" => result.mdata = CatalogOfFirst(fnames[1], format)
        /\ pc = "raised" => result = NoResult

\* the second file's catalog differs and the comparison has raised
C2_Witness ==
    /\ call.strict_meta
    /\ pc = "raised"
    /\ error = [type |-> "ValueError", site |-> "strict"]
    /\ i = 2
    /\ mdata # saved_mdata[1]
    /\ running_store # <<>>
    /\ result = NoResult

\* some file of the list has other global attributes than the first
GlobalsDiffer(paths) ==
    \E k \in DOMAIN paths : FS(paths[k]).gattrs # FS(paths[1]).gattrs

NoIndexGroups(file) ==
    {ObjKeyName(file.vars[k].dims[2]) :
        k \in {n \in DOMAIN file.vars :
                  /\ Len(file.vars[n].dims) = 2
                  /\ (ObjKeyName(file.vars[n].dims[2]) \o "_dimension_1")
                        \notin VarNames(file)}}

\* the 2-D variables of the group obj of a file
GroupVars(file, obj) ==
    {file.vars[k] : k \in {n \in DOMAIN file.vars :
                              /\ Len(file.vars[n].dims) = 2
                              /\ ObjKeyName(file.vars[n].dims[2]) = obj}}

\* C4: a 2-D group of R timestamps by S elements without an index variable
\* gives R nested frames, frame t holding the values at flattened offsets
\* [S*t, S*(t+1)) of each field, indexed 0..S-1 under the label 'index'.
C4_SyntheticIndex ==
    \A obj \in (IF pc \in {"index", "strict", "close"}
                     \/ (pc = "raised" /\ error.site = "group")
                 THEN NoIndexGroups(curfile) ELSE {}) :
        /\ pc # "raised"
        /\ obj \in DOMAIN loadedVars
        /\ Len(loadedVars[obj]) = NumTimes
        /\ \A t \in 1..NumTimes :
               /\ loadedVars[obj][t].index = [n \in 1..StepSize |-> n - 1]
               /\ loadedVars[obj][t].index_name = "index"
               /\ \A v \in GroupVars(curfile, obj) :
                      LET field == SplitLast(v.name, obj \o "_")
                      IN  field # "dimension_1" =>
                            loadedVars[obj][t].data[field]
                              = [n \in 1..StepSize |->
                                    Num(v.data[StepSize * (t - 1) + n])]

\* C5: while a file's global attributes are stored, every attribute already
\* stored keeps its value: each of the file's attributes read so far is
\* found under its name or under its name + '_', and the attributes the Meta
\* started with are untouched.
C5_NoOverwrite ==
    pc = "attrs" =>
        /\ \A n \in ReservedAttrs : mdata.attrs[n] = MetaNew.attrs[n]
        /\ \A k \in 1..(j - 1) :
               LET a == curfile.gattrs[k]
               IN  \E n \in {a.name, a.name \o "_"} :
                       n \in DOMAIN mdata.attrs /\ mdata.attrs[n] = a.value

\* C6: a single-file load returns as many rows as the file's time variable
\* is long, with or without nested 2-D groups.
C6_RowCount ==
    (pc = "returned" /\ Len(fnames) = 1) =>
        /\ Len(result.out) = Len(TimeData(fnames[1]))
        /\ Len(result.out) = Variable(FS(fnames[1]), time_name).shape[1]

C6_Witness ==
    /\ pc = "returned"
    /\ fnames = <<"idx.nc">>
    /\ Len(result.out) = NumTimes
    /\ "rpa" \in DOMAIN result.out[1].cols

\* C7, as claimed: a call with None or with an empty list fails in the
\* argument check.
C7_ArgCheckRejects ==
    (pc # "call" /\ (call.fnames.kind = "none"
                       \/ (call.fnames.kind = "list" /\ call.fnames.paths = <<>>)))
        => (pc = "raised" /\ error.site = "argcheck")

\* C7, amended: a single path string is read as the one-element list of that
\* path; None fails with a ValueError raised by the argument check; an empty
\* list passes the argument check and fails with a ValueError raised by the
\* final concatenation; in both failures no file is ever opened and nothing
\* is returned.
C7_Arguments ==
    /\ (call.fnames.kind = "str" /\ pc # "call") => fnames = <<call.fnames.path>>
    /\ (call.fnames.kind = "none" /\ pc # "call") =>
          /\ pc = "raised"
          /\ error = [type |-> "ValueError", site |-> "argcheck"]
    /\ (call.fnames.kind = "list" /\ call.fnames.paths = <<>>) =>
          /\ pc \in {"call", "loop", "raised"}
          /\ pc = "raised" => error = [type |-> "ValueError", site |-> "concat"]
    /\ (call.fnames.kind = "none"
          \/ (call.fnames.kind = "list" /\ call.fnames.paths = <<>>)) =>
          /\ handles = {}
          /\ running_store = <<>>
          /\ result = NoResult

C7_Witness ==
    /\ call.fnames.kind = "list"
    /\ call.fnames.paths = <<>>
    /\ pc = "raised"
    /\ error.site = "concat"

\* C8: a call given a file that holds a variable of neither one nor two
\* dimensions fails: it never returns a dataset and catalog, which would lack
\* that variable.
C8_UnsupportedDimension ==
    pc = "returned" =>
        \A n \in DOMAIN fnames : \A k \in DOMAIN FS(fnames[n]).vars :
            Len(FS(fnames[n]).vars[k].dims) \in {1, 2}

\* C9: at most one file handle is open at any time, it is the handle of the
\* file being read, and none is open between two files nor once the call has
\* returned or raised, whichever step raised.
C9_OneHandle ==
    /\ Cardinality(handles) <= 1
    /\ pc \in {"attrs", "group", "index", "strict", "close"} => handles = {i}
    /\ pc \in {"call", "loop", "returned", "raised"} => handles = {}

\* the strict comparison has failed for the second file
C9_Witness ==
    /\ pc = "raised"
    /\ error.site = "strict"
    /\ i = 2
    /\ handles = {}

\* the dates of a set in ascending order
RECURSIVE Ascending(_)
Ascending(S) ==
    IF S = {} THEN <<>>
    ELSE LET m == CHOOSE x \in S : \A y \in S : x <= y
         IN  <<m>> \o Ascending(S \ {m})

\* the regular range of one pair: the dates from a to b on the grid of f
RegularRange(a, b, f) ==
    Ascending({d \in a..b : IF f.anchored THEN d % f.step = 0
                             ELSE (d - a) % f.step = 0})

\* C10: with start and stop sequences of equal length season_date_range
\* returns the pairs' regular ranges one after the other in pair order,
\* unsorted and with repeats kept, every date lying inside some pair; the
\* single (start, stop) form returns that pair's range.
C10_SeasonConcat ==
    (season.pc = "returned" /\ Len(season.start) = Len(season.stop)) =>
        /\ season.season =
             Flatten([k \in DOMAIN season.start |->
                         RegularRange(season.start[k], season.stop[k],
                                      season.freq)])
        /\ \A n \in DOMAIN season.season :
               \E k \in DOMAIN season.start :
                   /\ season.start[k] <= season.season[n]
                   /\ season.season[n] <= season.stop[k]

\* two pairs whose ranges come out of date order
C10_Witness ==
    /\ season.pc = "returned"
    /\ season.iter
    /\ Len(season.start) = 2
    /\ Len(season.stop) = 2
    /\ \E n \in 1..(Len(season.season) - 1) :
           season.season[n] >= season.season[n + 1]

\* C11: a call with start and stop sequences of different lengths fails; it
\* never returns.
C11_MismatchFails ==
    (season.iter /\ Len(season.start) # Len(season.stop)
       /\ season.pc \notin {"call", "zip"}) =>
        season.pc = "raised"

\* year, month, day and uts are all given as arrays of one length above zero
EqualArrays(st) ==
    /\ \A a \in {st.year, st.month, st.day, st.uts} : a.kind = "array"
    /\ st.year.vals # <<>>
    /\ \A a \in {st.month, st.day, st.uts} : Len(a.vals) = Len(st.year.vals)

\* the seconds from the epoch to row p as stated: the first day of month[p] of
\* year[p], day[p]-1 days and uts[p] seconds
RowTime(st, p) ==
    MonthStartDiff(st.year.vals[p], st.month.vals[p], EpochYear, 1)
    + (st.day.vals[p] - 1) * SecondsPerDay + st.uts.vals[p]

\* C12: for arrays of one length above zero the index returned has one
\* timestamp per row, in row order: the first day of the row's month and year
\* plus day-1 days plus uts seconds.
C12_RowTimes ==
    (dt.pc = "returned" /\ EqualArrays(dt)) =>
        /\ Len(dt.out) = Len(dt.year.vals)
        /\ \A p \in DOMAIN dt.out : dt.out[p] = RowTime(dt, p)

\* an argument that is given but is not an array, or is an empty array
BadArg(a) == a.kind = "scalar" \/ (a.kind = "array" /\ a.vals = <<>>)

\* C13: a call where year, or month, day or uts when given, is not an array
\* or is empty, fails; it never returns.
C13_AllInputsChecked ==
    (/\ dt.pc \in {"returned", "raised"}
     /\ \/ dt.year.kind = "none"
        \/ \E a \in {dt.year, dt.month, dt.day, dt.uts} : BadArg(a)) =>
        dt.pc = "raised"

\* the 2-D variables of a file, in the file's order
TwoDKeysOf(file) ==
    LET at == SelectSeq([k \in DOMAIN file.vars |-> k],
                        LAMBDA k : Len(file.vars[k].dims) = 2)
    IN  [n \in DOMAIN at |-> file.vars[at[n]].name]

\* lines 127-243 for a file read on its own, from empty lists of 2-D keys
AloneStage(file, st, fmt) ==
    GroupAll(file, st.two_d_keys, st.two_d_dims, fmt, st.loadedVars, st.mdata)

GroupsAlone(file, fmt) ==
    AloneStage(file,
               LoadAll([loadedVars |-> EmptyDict, mdata |-> MetaNew,
                        two_d_keys |-> <<>>, two_d_dims |-> <<>>], file.vars),
               fmt)

\* C14: no classification state goes from one file to the next: the 2-D
\* keys grouped while file i is processed are the 2-D variables of file i,
\* the grouping of file i fails only if it fails for the file on its own, and
\* its nested objects and their catalog entries are those of the file loaded
\* on its own.
C14_NoCarryOver ==
    /\ pc \in {"group", "index", "strict", "close"} =>
          two_d_keys = TwoDKeysOf(curfile)
    /\ (pc = "raised" /\ error.site = "group") =>
          GroupsAlone(curfile, format).err # "none"
    /\ pc = "index" =>
          \E g \in {GroupsAlone(curfile, format)} :
              /\ g.err = "none"
              /\ loadedVars = g.loadedVars
              /\ mdata.items = g.mdata.items

\* the factor of a format tag as given by the caller, as claimed: 1000 for
\* the NETCDF4 variants, 1000000 for the NETCDF3 ones
ClaimedFactor(tag) ==
    IF tag \in {None, "netcdf4", "NETCDF4", "netcdf4_classic", "NETCDF4_CLASSIC"}
    THEN MilliFactor ELSE MicroFactor

\* the factor the code applies: 1000 for an omitted tag and for NETCDF4 in
\* either case, 1000000 for every other tag
TagFactor(tag) ==
    IF tag \in {None, "netcdf4", "NETCDF4"} THEN MilliFactor ELSE MicroFactor

\* the nested objects of the table whose index variable in the file is a
\* 2-D variable with the long name 'UNIX time'
TimeIndexed(file, lv) ==
    {obj \in (DOMAIN lv) \ {time_name} :
        IF (obj \o "_dimension_1") \in VarNames(file)
        THEN /\ Len(Variable(file, obj \o "_dimension_1").dims) = 2
             /\ Variable(file, obj \o "_dimension_1").attrs.long_name
                  = "UNIX time"
        ELSE FALSE}

\* the file's time variable and every nested 'UNIX time' index read so far
\* are the raw values times f, one timestamp per element and in order
ScaledBy(f) ==
    /\ pc \in {"strict", "close"} =>
          loadedVars[time_name] =
              [r \in DOMAIN TimeData(fnames[i]) |->
                  Num(f * TimeData(fnames[i])[r])]
    /\ pc \in {"index", "strict", "close"} =>
          \A obj \in TimeIndexed(curfile, loadedVars) :
              \A t \in DOMAIN loadedVars[obj] :
                  loadedVars[obj][t].index =
                      [n \in 1..StepSize |->
                          f * Variable(curfile, obj \o "_dimension_1")
                                  .data[StepSize * (t - 1) + n]]

\* C15, as claimed: NETCDF4 and NETCDF4_CLASSIC scale by 1000, the NETCDF3
\* tags by 1000000.
C15_ClaimedScale == ScaledBy(ClaimedFactor(call.format))

\* C15, amended: the tag is compared in upper case and an omitted tag means
\* NETCDF4; only NETCDF4 scales by 1000, every other tag (NETCDF4_CLASSIC,
\* NETCDF3_CLASSIC, NETCDF3_64BIT) by 1000000; the time variable and a nested
\* 'UNIX time' index get the same factor, one timestamp per element in order.
C15_EpochScale == ScaledBy(TagFactor(call.format))

\* a lower-case tag and a nested 'UNIX time' index scaled by 1000
C15_Witness ==
    /\ pc = "close"
    /\ call.format = "netcdf4"
    /\ fnames[i] = "tidx.nc"
    /\ "img" \in DOMAIN loadedVars
    /\ loadedVars["img"][1].index_name = "epoch"
    /\ loadedVars["img"][1].index[1] = MilliFactor * 1501
    /\ loadedVars[time_name][1] = Num(MilliFactor * 91)

====
